---- MODULE Spec2Model ----
(***************************************************************************)
(* Model of app.py: the /analyze handler and the three functions it rests  *)
(* on, normalize_code, calculate_similarity and detect_ai_generated.       *)
(*                                                                         *)
(* A text is a sequence of one-character strings.  A score is an integer   *)
(* number of hundredths of a percent (100.00 is 10000), so that Python's   *)
(* round(x, 2) is an integer rounding of an exact fraction.                *)
(***************************************************************************)
EXTENDS Integers, Sequences, FiniteSets, TLC

VARIABLES
    pc,             \* position of the running call
    request,        \* the multipart request handed to analyze
    code1,          \* first text  (code1 of analyze / calculate_similarity, code of the others)
    code2,          \* second text (code2 of analyze / calculate_similarity)
    norm1,          \* value returned by normalize_code(code1)
    similarity,     \* value returned by calculate_similarity(code1, code2)
    ai_detection1,  \* value returned by detect_ai_generated(code1)
    ai_detection2,  \* value returned by detect_ai_generated(code2)
    response,       \* (body, status) returned by analyze
    calls           \* how often analyze has invoked each core function

vars == <<pc, request, code1, code2, norm1, similarity,
          ai_detection1, ai_detection2, response, calls>>

None == "none"

(***************************************************************************)
(* Characters                                                              *)
(***************************************************************************)
LowerLetters == {"a","b","c","d","e","f","g","h","i","j","k","l","m",
                 "n","o","p","q","r","s","t","u","v","w","x","y","z"}
UpperSeq == <<"A","B","C","D","E","F","G","H","I","J","K","L","M",
              "N","O","P","Q","R","S","T","U","V","W","X","Y","Z">>
LowerSeq == <<"a","b","c","d","e","f","g","h","i","j","k","l","m",
              "n","o","p","q","r","s","t","u","v","w","x","y","z">>
UpperLetters == {UpperSeq[i] : i \in 1..Len(UpperSeq)}
Digits == {"0","1","2","3","4","5","6","7","8","9"}

\* re's \w on str: letters, digits and the underscore.
IsWordChar(c) == c \in LowerLetters \cup UpperLetters \cup Digits \cup {"_"}

\* re's \s and the characters str.strip() removes.
IsSpace(c) == c \in {" ", "\t", "\n", "\r", "\f"}

\* str.lower() on one character.
LowerChar(c) ==
    IF c \in UpperLetters
    THEN LowerSeq[CHOOSE i \in 1..Len(UpperSeq) : UpperSeq[i] = c]
    ELSE c

\* str.lower()
Lower(s) == [i \in 1..Len(s) |-> LowerChar(s[i])]

(***************************************************************************)
(* Small helpers                                                           *)
(***************************************************************************)
Min2(x, y) == IF x <= y THEN x ELSE y

SetMin(S) == CHOOSE x \in S : \A y \in S : x <= y

SetMax(S) == CHOOSE x \in S : \A y \in S : y <= x

\* s[lo..hi], empty when hi < lo.
Slice(s, lo, hi) == IF hi < lo THEN <<>> ELSE SubSeq(s, lo, hi)

\* Whether the literal m occurs in s at position p.
StartsAt(s, p, m) ==
    /\ p >= 1
    /\ p + Len(m) - 1 <= Len(s)
    /\ \A t \in 1..Len(m) : s[p + t - 1] = m[t]

\* s with the positions in R removed.
RECURSIVE DropFrom(_, _, _)
DropFrom(s, R, i) ==
    IF i > Len(s) THEN <<>>
    ELSE (IF i \in R THEN <<>> ELSE <<s[i]>>) \o DropFrom(s, R, i + 1)

\* Python's round(n/d, 0) for n >= 0, d > 0: to the nearest integer, a tie
\* to the even one.
RoundHalfEven(n, d) ==
    LET q == n \div d
        r == n % d
    IN  IF 2 * r > d THEN q + 1
        ELSE IF 2 * r < d THEN q
        ELSE IF q % 2 = 0 THEN q ELSE q + 1

(***************************************************************************)
(* str.splitlines(), for texts whose only line boundary is "\n"            *)
(***************************************************************************)
\* A line starts at the first character and after every newline; a text
\* that ends in a newline has no empty last line.
IsLineStart(s, i) == i = 1 \/ s[i - 1] = "\n"

\* The position just after the line that starts at i.
LineEnd(s, i) ==
    CHOOSE j \in i..(Len(s) + 1) :
        /\ j = Len(s) + 1 \/ s[j] = "\n"
        /\ \A k \in i..(j - 1) : s[k] # "\n"

\* The line starts of s[lo..hi], in order.
RECURSIVE LineStartsIn(_, _, _)
LineStartsIn(s, lo, hi) ==
    IF lo > hi THEN <<>>
    ELSE IF lo = hi THEN (IF IsLineStart(s, lo) THEN <<lo>> ELSE <<>>)
    ELSE LET mid == (lo + hi) \div 2
         IN  LineStartsIn(s, lo, mid) \o LineStartsIn(s, mid + 1, hi)

SplitLines(s) ==
    LET starts == LineStartsIn(s, 1, Len(s))
    IN  [k \in 1..Len(starts) |-> Slice(s, starts[k], LineEnd(s, starts[k]) - 1)]

\* str.lstrip() and str.strip()
LStrip(s) ==
    IF \A i \in 1..Len(s) : IsSpace(s[i]) THEN <<>>
    ELSE Slice(s, SetMin({i \in 1..Len(s) : ~IsSpace(s[i])}), Len(s))

Strip(s) ==
    IF \A i \in 1..Len(s) : IsSpace(s[i]) THEN <<>>
    ELSE Slice(s, SetMin({i \in 1..Len(s) : ~IsSpace(s[i])}),
                  SetMax({i \in 1..Len(s) : ~IsSpace(s[i])}))

(***************************************************************************)
(* normalize_code                                                          *)
(***************************************************************************)
\* re.sub(marker + r'.*?$', '', code, flags=re.MULTILINE): on every line,
\* everything from the first occurrence of the marker to the end of the
\* line goes; the newline stays.
StripLineComments(s, marker) ==
    LET cut == {p \in 1..Len(s) :
                  \E q \in 1..p : /\ StartsAt(s, q, marker)
                                  /\ \A k \in q..p : s[k] # "\n"}
    IN  DropFrom(s, cut, 1)

\* The first position >= p + 2 where "*/" starts, 0 when there is none.
BlockClose(s, p) ==
    LET ends == {e \in (p + 2)..Len(s) : StartsAt(s, e, <<"*", "/">>)}
    IN  IF ends = {} THEN 0 ELSE SetMin(ends)

\* re.sub(r'/\*.*?\*/', '', code, flags=re.DOTALL), scanning from pos: the
\* leftmost "/*" that has a "*/" after it is removed up to the nearest one.
RECURSIVE StripBlockComments(_, _)
StripBlockComments(s, pos) ==
    LET opens == {p \in pos..Len(s) :
                    StartsAt(s, p, <<"/", "*">>) /\ BlockClose(s, p) # 0}
    IN  IF opens = {} THEN Slice(s, pos, Len(s))
        ELSE LET p == SetMin(opens)
             IN  Slice(s, pos, p - 1) \o StripBlockComments(s, BlockClose(s, p) + 2)

\* re.sub(r'\s+', ' ', code): every maximal run of whitespace becomes one
\* space.
RECURSIVE CollapseFrom(_, _)
CollapseFrom(s, i) ==
    IF i > Len(s) THEN <<>>
    ELSE IF ~IsSpace(s[i]) THEN <<s[i]>> \o CollapseFrom(s, i + 1)
    ELSE IF i > 1 /\ IsSpace(s[i - 1]) THEN CollapseFrom(s, i + 1)
    ELSE <<" ">> \o CollapseFrom(s, i + 1)

normalize_code(code) ==
    LET c1 == StripLineComments(code, <<"/", "/">>)
        c2 == StripLineComments(c1, <<"#">>)
        c3 == StripBlockComments(c2, 1)
        c4 == CollapseFrom(c3, 1)
    IN  Strip(c4)

(***************************************************************************)
(* difflib.SequenceMatcher(None, a, b).ratio()                             *)
(*                                                                         *)
(* No junk predicate is given, and the automatic junk heuristic only       *)
(* applies to a second sequence of 200 elements or more, far beyond the    *)
(* texts compared here.  A ratio is the pair <<numerator, denominator>>.   *)
(***************************************************************************)
\* Length of the longest common run that starts at a[i], b[j] and stays
\* inside a[..ahi], b[..bhi].
CommonLen(a, b, i, j, ahi, bhi) ==
    LET lim == Min2(ahi - i + 1, bhi - j + 1)
    IN  CHOOSE k \in 0..lim :
            /\ \A t \in 0..(k - 1) : a[i + t] = b[j + t]
            /\ k = lim \/ a[i + k] # b[j + k]

\* find_longest_match: the longest block common to a[alo..ahi] and
\* b[blo..bhi]; of the longest ones that which starts earliest in a, and of
\* those that which starts earliest in b.
FindLongestMatch(a, b, alo, ahi, blo, bhi) ==
    LET sizes == {CommonLen(a, b, i, j, ahi, bhi) : i \in alo..ahi, j \in blo..bhi}
        best  == IF sizes = {} THEN 0 ELSE SetMax(sizes)
    IN  IF best = 0 THEN [i |-> alo, j |-> blo, size |-> 0]
        ELSE LET bi == SetMin({i \in alo..ahi :
                          \E j \in blo..bhi : CommonLen(a, b, i, j, ahi, bhi) = best})
                 bj == SetMin({j \in blo..bhi : CommonLen(a, b, bi, j, ahi, bhi) = best})
             IN  [i |-> bi, j |-> bj, size |-> best]

\* get_matching_blocks, summed: the block found, plus what is found to
\* its left and to its right.
RECURSIVE MatchedSize(_, _, _, _, _, _)
MatchedSize(a, b, alo, ahi, blo, bhi) ==
    IF alo > ahi \/ blo > bhi THEN 0
    ELSE LET m == FindLongestMatch(a, b, alo, ahi, blo, bhi)
         IN  IF m.size = 0 THEN 0
             ELSE m.size
                  + MatchedSize(a, b, alo, m.i - 1, blo, m.j - 1)
                  + MatchedSize(a, b, m.i + m.size, ahi, m.j + m.size, bhi)

\* ratio(): 2.0 * matches / length, and 1.0 when both sequences are empty.
SequenceRatio(a, b) ==
    LET length == Len(a) + Len(b)
    IN  IF length = 0 THEN <<1, 1>>
        ELSE <<2 * MatchedSize(a, b, 1, Len(a), 1, Len(b)), length>>

(***************************************************************************)
(* calculate_similarity                                                    *)
(***************************************************************************)
\* set(re.findall(r'\b\w+\b', code)): the maximal runs of word characters.
WordRunEnd(s, i) ==
    CHOOSE j \in i..Len(s) :
        /\ \A k \in i..j : IsWordChar(s[k])
        /\ j = Len(s) \/ ~IsWordChar(s[j + 1])

WordRunStarts(s) ==
    {i \in 1..Len(s) : IsWordChar(s[i]) /\ (i = 1 \/ ~IsWordChar(s[i - 1]))}

WordTokens(s) == {Slice(s, i, WordRunEnd(s, i)) : i \in WordRunStarts(s)}

\* Method 4: the share of the word tokens of either text that both have.
TokenRatio(c1, c2) ==
    LET tokens1 == WordTokens(c1)
        tokens2 == WordTokens(c2)
    IN  IF tokens1 # {} \/ tokens2 # {}
        THEN <<Cardinality(tokens1 \cap tokens2), Cardinality(tokens1 \cup tokens2)>>
        ELSE <<0, 1>>

\* The weights of the four methods, in tenths.
WeightSequence == 3
WeightNormalized == 3
WeightLine == 2
WeightToken == 2

\* round(ratio * 100, 2), in hundredths.
Percent(r) == RoundHalfEven(10000 * r[1], r[2])

\* WeightedPercent with the weights 0.4, 0.3, 0.2 and 0.1.
WeightedPercentMisweighted(s, n, l, t) ==
    LET den == s[2] * n[2] * l[2] * t[2]
        num == 4 * s[1] * n[2] * l[2] * t[2]
             + 3 * n[1] * s[2] * l[2] * t[2]
             + 2 * l[1] * s[2] * n[2] * t[2]
             + 1 * t[1] * s[2] * n[2] * l[2]
    IN  RoundHalfEven(1000 * num, den)

\* round(final_similarity * 100, 2), in hundredths, of the weighted sum of
\* the four ratios.
WeightedPercent(s, n, l, t) ==
    LET den == s[2] * n[2] * l[2] * t[2]
        num == WeightSequence * s[1] * n[2] * l[2] * t[2]
             + WeightNormalized * n[1] * s[2] * l[2] * t[2]
             + WeightLine * l[1] * s[2] * n[2] * t[2]
             + WeightToken * t[1] * s[2] * n[2] * l[2]
    IN  RoundHalfEven(1000 * num, den)

calculate_similarity(c1, c2) ==
    LET seq_similarity   == SequenceRatio(c1, c2)
        norm_similarity  == SequenceRatio(normalize_code(c1), normalize_code(c2))
        line_similarity  == SequenceRatio(SplitLines(c1), SplitLines(c2))
        token_similarity == TokenRatio(c1, c2)
    IN  [overall     |-> WeightedPercent(seq_similarity, norm_similarity,
                                         line_similarity, token_similarity),
         sequence    |-> Percent(seq_similarity),
         normalized  |-> Percent(norm_similarity),
         line_based  |-> Percent(line_similarity),
         token_based |-> Percent(token_similarity)]

(***************************************************************************)
(* Inputs                                                                  *)
(***************************************************************************)
\* All texts over an alphabet, up to a length.
TextsUpTo(alphabet, n) == UNION {[1..k -> alphabet] : k \in 0..n}

MaxSimLen == 4
SimAlphabet == {"a", "+", "\n"}
SimTexts == TextsUpTo(SimAlphabet, MaxSimLen)

(***************************************************************************)
(* calculate_similarity applied to two texts                               *)
(***************************************************************************)
InitSimilarity ==
    /\ pc = "call_similarity"
    /\ request = None
    /\ code1 \in SimTexts
    /\ code2 \in SimTexts
    /\ norm1 = None
    /\ similarity = None
    /\ ai_detection1 = None
    /\ ai_detection2 = None
    /\ response = None
    /\ calls = None

CalculateSimilarity ==
    /\ pc = "call_similarity"
    /\ similarity' = calculate_similarity(code1, code2)
    /\ pc' = "similarity_returned"
    /\ UNCHANGED <<request, code1, code2, norm1, ai_detection1, ai_detection2,
                   response, calls>>

NextSimilarity == CalculateSimilarity

SpecSimilarity == InitSimilarity /\ [][NextSimilarity]_vars

(***************************************************************************)
(* Properties of calculate_similarity                                      *)
(***************************************************************************)
SimilarityReturned == pc = "similarity_returned"

\* C1: comparing a text with itself gives overall 100.00, also for the
\* empty text and for a text without any word character.
C1_SelfSimilarityIsMaximal ==
    (SimilarityReturned /\ code1 = code2) => similarity.overall = 10000

\* C2: swapping the two texts never changes the overall score.
C2_OverallIsSymmetric ==
    SimilarityReturned =>
        similarity.overall = calculate_similarity(code2, code1).overall

\* The tokens C5 speaks of: an identifier (a letter or underscore, then word
\* characters), a run of digits, or one character that is neither a word
\* character nor whitespace; in order of occurrence.
RECURSIVE LexTokensFrom(_, _)
LexTokensFrom(s, i) ==
    IF i > Len(s) THEN <<>>
    ELSE IF IsSpace(s[i]) THEN LexTokensFrom(s, i + 1)
    ELSE IF s[i] \in Digits
         THEN LET j == CHOOSE j \in i..Len(s) :
                           /\ \A k \in i..j : s[k] \in Digits
                           /\ j = Len(s) \/ s[j + 1] \notin Digits
              IN  <<Slice(s, i, j)>> \o LexTokensFrom(s, j + 1)
    ELSE IF IsWordChar(s[i])
         THEN <<Slice(s, i, WordRunEnd(s, i))>> \o LexTokensFrom(s, WordRunEnd(s, i) + 1)
    ELSE <<<<s[i]>>>> \o LexTokensFrom(s, i + 1)

\* How often tok occurs in the token sequence toks.
Occurrences(toks, tok) == Cardinality({k \in 1..Len(toks) : toks[k] = tok})

\* The dot product of the token-count vectors of two token sequences.
RECURSIVE DotFrom(_, _, _)
DotFrom(t1, t2, k) ==
    IF k > Len(t1) THEN 0 ELSE Occurrences(t2, t1[k]) + DotFrom(t1, t2, k + 1)

\* C5: token_based is the cosine of the two token-frequency vectors: 0 when
\* either text has no token, 100.00 exactly when both have tokens in the
\* same proportions, and 0 exactly when they share no token.
C5_TokenBasedIsCosine ==
    SimilarityReturned =>
        LET t1  == LexTokensFrom(code1, 1)
            t2  == LexTokensFrom(code2, 1)
            dot == DotFrom(t1, t2, 1)
            sq1 == DotFrom(t1, t1, 1)
            sq2 == DotFrom(t2, t2, 1)
        IN  /\ (t1 = <<>> \/ t2 = <<>>) => similarity.token_based = 0
            /\ (t1 # <<>> /\ t2 # <<>>) =>
                 /\ similarity.token_based = 10000 <=> dot * dot = sq1 * sq2
                 /\ similarity.token_based = 0 <=> dot = 0

ReportedFields == {"overall", "sequence", "normalized", "line_based", "token_based"}

\* The weighted sum of the four reported sub-scores, rounded to two
\* decimals: the nearest value, and at a tie either neighbour, since the
\* float that round() is given there may lie on either side.
OverallFromReported(r) ==
    LET num == WeightSequence * r.sequence + WeightNormalized * r.normalized
               + WeightLine * r.line_based + WeightToken * r.token_based
    IN  IF num % 10 = 5 THEN {num \div 10, num \div 10 + 1}
        ELSE {RoundHalfEven(num, 10)}

WeightsAndRangeOk ==
    /\ WeightSequence >= 0 /\ WeightNormalized >= 0
    /\ WeightLine >= 0 /\ WeightToken >= 0
    /\ WeightSequence + WeightNormalized + WeightLine + WeightToken = 10
    /\ DOMAIN similarity = ReportedFields
    /\ \A f \in ReportedFields : similarity[f] \in 0..10000

\* C6 as stated: overall is exactly the rounded weighted sum of the four
\* reported sub-scores; the weights are nonnegative and sum to 1; every
\* field lies in [0, 100].
C6_OverallExactFromReported ==
    SimilarityReturned =>
        /\ WeightsAndRangeOk
        /\ similarity.overall \in OverallFromReported(similarity)

\* C6 as amended: overall is rounded from the unrounded ratios, so it is
\* within 0.01 of the rounded weighted sum of the four reported sub-scores;
\* the weights are nonnegative and sum to 1; every field lies in [0, 100].
C6_OverallWithinOneHundredth ==
    SimilarityReturned =>
        /\ WeightsAndRangeOk
        /\ \A v \in OverallFromReported(similarity) :
               similarity.overall - v \in {-1, 0, 1}

\* A comparison where overall and the recomputed value part by 0.01.
C6_Witness ==
    /\ SimilarityReturned
    /\ similarity.overall \notin OverallFromReported(similarity)
    /\ similarity.token_based \notin {0, 10000}

\* The non-blank lines of a text, each trimmed, in order.
NonBlankTrimmedLines(s) ==
    LET trimmed == [k \in 1..Len(SplitLines(s)) |-> Strip(SplitLines(s)[k])]
    IN  SelectSeq(trimmed, LAMBDA l : l # <<>>)

\* C8: line_based is the ratio over the non-blank, trimmed lines of the two
\* texts, so blank lines and the whitespace around a line do not count.
C8_LineBasedIgnoresBlankAndTrim ==
    SimilarityReturned =>
        similarity.line_based =
            Percent(SequenceRatio(NonBlankTrimmedLines(code1), NonBlankTrimmedLines(code2)))

(***************************************************************************)
(* normalize_code applied to a text                                        *)
(***************************************************************************)
MaxNormLen == 6
NormAlphabet == {"x", "/", "*", "#", "\n", "\""}
NormTexts == TextsUpTo(NormAlphabet, MaxNormLen)

InitNormalize ==
    /\ pc = "call_normalize"
    /\ request = None
    /\ code1 \in NormTexts
    /\ code2 = None
    /\ norm1 = None
    /\ similarity = None
    /\ ai_detection1 = None
    /\ ai_detection2 = None
    /\ response = None
    /\ calls = None

NormalizeCode ==
    /\ pc = "call_normalize"
    /\ norm1' = normalize_code(code1)
    /\ pc' = "normalize_returned"
    /\ UNCHANGED <<request, code1, code2, similarity, ai_detection1, ai_detection2,
                   response, calls>>

NextNormalize == NormalizeCode

SpecNormalize == InitNormalize /\ [][NextNormalize]_vars

\* Text that is plain code: word characters only.
IsPlain(s) == \A i \in 1..Len(s) : IsWordChar(s[i])

\* For a text made of plain code, one span from open to the nearest close
\* after it, and plain code again: what is left once the span is removed.
SpanRemoved(s, open, close, p) ==
    LET ends == {e \in (p + Len(open))..Len(s) : StartsAt(s, e, close)}
        e    == SetMin(ends)
    IN  Slice(s, 1, p - 1) \o Slice(s, e + Len(close), Len(s))

IsSingleSpan(s, open, close, p) ==
    LET ends == {e \in (p + Len(open))..Len(s) : StartsAt(s, e, close)}
    IN  /\ StartsAt(s, p, open)
        /\ ends # {}
        /\ IsPlain(Slice(s, 1, p - 1))
        /\ IsPlain(Slice(s, SetMin(ends) + Len(close), Len(s)))

\* C10: a block comment /* ... */ (whatever its body: newlines, //, #) and a
\* triple-quoted span are removed whole and nothing around them is lost;
\* the empty text gives the empty text.
C10_SpansRemoved ==
    pc = "normalize_returned" =>
        /\ code1 = <<>> => norm1 = <<>>
        /\ \A p \in 1..Len(code1) :
             /\ IsSingleSpan(code1, <<"/", "*">>, <<"*", "/">>, p)
                  => norm1 = SpanRemoved(code1, <<"/", "*">>, <<"*", "/">>, p)
             /\ IsSingleSpan(code1, <<"\"", "\"", "\"">>, <<"\"", "\"", "\"">>, p)
                  => norm1 = SpanRemoved(code1, <<"\"", "\"", "\"">>, <<"\"", "\"", "\"">>, p)

(***************************************************************************)
(* detect_ai_generated                                                     *)
(***************************************************************************)
IndicatorNames == {"comment_density", "perfect_indentation", "generic_names",
                   "documentation_style", "complexity"}

\* l.strip().startswith(('#', '//', '/*', '*'))
IsCommentLine(l) ==
    LET t == Strip(l)
    IN  \/ StartsAt(t, 1, <<"#">>)
        \/ StartsAt(t, 1, <<"/", "/">>)
        \/ StartsAt(t, 1, <<"/", "*">>)
        \/ StartsAt(t, 1, <<"*">>)

\* l.startswith((' ', '\t'))
IsIndentedLine(l) == Len(l) > 0 /\ l[1] \in {" ", "\t"}

\* len(l) - len(l.lstrip())
IndentLength(l) == Len(l) - Len(LStrip(l))

\* round((comment_lines / total_lines) * 100, 2), in hundredths.
CommentDensity(lines) ==
    LET comment_lines == Cardinality({k \in 1..Len(lines) : IsCommentLine(lines[k])})
    IN  RoundHalfEven(10000 * comment_lines, Len(lines))

IndentationScoreConsistent == 80
IndentationScoreMixed == 30
MaxIndentWidths == 3

\* 80 when the indented lines use at most three distinct widths, 30 when
\* they use more, 0 when no line is indented.
PerfectIndentation(lines) ==
    LET indented == {k \in 1..Len(lines) : IsIndentedLine(lines[k])}
        indent_lengths == {IndentLength(lines[k]) : k \in indented}
    IN  IF indented = {} THEN 0
        ELSE IF Cardinality(indent_lengths) <= MaxIndentWidths
             THEN IndentationScoreConsistent
             ELSE IndentationScoreMixed

GenericNames == {<<"v","a","r">>, <<"t","e","m","p">>, <<"d","a","t","a">>,
                 <<"r","e","s","u","l","t">>, <<"v","a","l","u","e">>,
                 <<"i","t","e","m">>, <<"e","l","e","m","e","n","t">>,
                 <<"o","b","j">>, <<"a","r","r">>}

\* Whether a whole run of word characters is one of the generic names, in
\* any case, followed by digits only.  The pattern is anchored by \b on
\* both sides and matches word characters only, so it matches whole runs.
IsGenericWord(w) ==
    LET lw == Lower(w)
    IN  \E name \in GenericNames :
            /\ Len(lw) >= Len(name)
            /\ SubSeq(lw, 1, Len(name)) = name
            /\ \A k \in (Len(name) + 1)..Len(lw) : lw[k] \in Digits

\* len(re.findall(generic_patterns, code, re.IGNORECASE))
GenericCount(code) ==
    Cardinality({i \in WordRunStarts(code) :
                    IsGenericWord(Slice(code, i, WordRunEnd(code, i)))})

GenericNameWeight == 10
MaxIndicator == 100

\* GenericNamesScore without the cap.
GenericNamesScoreUncapped(count) == count * GenericNameWeight

\* min(generic_count * 10, 100)
GenericNamesScore(count) == Min2(count * GenericNameWeight, MaxIndicator)

TripleDouble == <<"\"", "\"", "\"">>
TripleSingle == <<"'", "'", "'">>

\* The last position of the match of doc_patterns that starts at p, 0 when
\* none starts there: a triple quote up to the nearest same triple quote
\* after it, or /** up to the nearest */ after it.
DocMatchLast(s, p) ==
    LET closeAt(open, close) ==
            LET ends == {e \in (p + Len(open))..Len(s) : StartsAt(s, e, close)}
            IN  IF StartsAt(s, p, open) /\ ends # {}
                THEN SetMin(ends) + Len(close) - 1
                ELSE 0
    IN  IF closeAt(TripleDouble, TripleDouble) # 0 THEN closeAt(TripleDouble, TripleDouble)
        ELSE IF closeAt(TripleSingle, TripleSingle) # 0 THEN closeAt(TripleSingle, TripleSingle)
        ELSE closeAt(<<"/", "*", "*">>, <<"*", "/">>)

\* len(re.findall(doc_patterns, code)): matches are taken left to right and
\* do not overlap.
RECURSIVE CountDocBlocks(_, _, _)
CountDocBlocks(s, starts, pos) ==
    LET next == {p \in starts : p >= pos}
    IN  IF next = {} THEN 0
        ELSE 1 + CountDocBlocks(s, starts, DocMatchLast(s, SetMin(next)) + 1)

DocBlockCount(code) ==
    CountDocBlocks(code, {p \in 1..Len(code) : DocMatchLast(code, p) # 0}, 1)

DocBlockWeight == 20

\* min(len(doc_blocks) * 20, 100)
DocumentationScore(count) == Min2(count * DocBlockWeight, MaxIndicator)

\* sum(len(l) for l in lines[lo..hi])
RECURSIVE SumLineLengths(_, _, _)
SumLineLengths(lines, lo, hi) ==
    IF lo > hi THEN 0
    ELSE IF lo = hi THEN Len(lines[lo])
    ELSE LET mid == (lo + hi) \div 2
         IN  SumLineLengths(lines, lo, mid) + SumLineLengths(lines, mid + 1, hi)

ShortLineLimit == 30
MediumLineLimit == 50
ComplexityShort == 30
ComplexityMedium == 50
ComplexityLong == 70

\* The bucket of the average line length sum / total_lines.
ComplexityScore(lines) ==
    LET total == SumLineLengths(lines, 1, Len(lines))
    IN  IF total < ShortLineLimit * Len(lines) THEN ComplexityShort
        ELSE IF total < MediumLineLimit * Len(lines) THEN ComplexityMedium
        ELSE ComplexityLong

HighThreshold == 70
MediumThreshold == 40

\* The band of the unrounded probability sum / (5 * 100) * 100, from the sum
\* of the five indicators in hundredths.
Confidence(sum) ==
    IF sum > HighThreshold * 100 * Cardinality(IndicatorNames) THEN "high"
    ELSE IF sum > MediumThreshold * 100 * Cardinality(IndicatorNames) THEN "medium"
    ELSE "low"

\* round(probability, 2), in hundredths.
Probability(sum) == RoundHalfEven(sum, Cardinality(IndicatorNames))

detect_ai_generated(code) ==
    LET lines == SplitLines(code)
        total_lines == Len(lines)
        indicators ==
            [comment_density     |-> CommentDensity(lines),
             perfect_indentation |-> 100 * PerfectIndentation(lines),
             generic_names       |-> 100 * GenericNamesScore(GenericCount(code)),
             documentation_style |-> 100 * DocumentationScore(DocBlockCount(code)),
             complexity          |-> 100 * ComplexityScore(lines)]
        sum == indicators.comment_density + indicators.perfect_indentation
               + indicators.generic_names + indicators.documentation_style
               + indicators.complexity
    IN  IF total_lines = 0
        THEN [probability |-> 0, confidence |-> "low",
              indicators  |-> [n \in IndicatorNames |-> 0]]
        ELSE [probability |-> Probability(sum), confidence |-> Confidence(sum),
              indicators  |-> indicators]

(***************************************************************************)
(* detect_ai_generated applied to a text                                   *)
(***************************************************************************)
\* n copies of s, one after the other.
Repeat(s, n) == [i \in 1..(n * Len(s)) |-> s[((i - 1) % Len(s)) + 1]]

\* k lines "x", indented by 1, 2, ... k spaces.
RECURSIVE Staircase(_)
Staircase(k) ==
    IF k = 0 THEN <<>>
    ELSE Staircase(k - 1) \o Repeat(<<" ">>, k) \o <<"x", "\n">>

HeaderLines == 41
PadLines == 367
StairSteps == 4
NameCount == 11
DocBlocks == 4
MaxDetectLen == 2
DetectAlphabet == {"#", " ", "\n", "a"}

\* A header of comment lines, blank lines, a staircase of indented lines, a
\* short free text, generic names and empty doc blocks; each part may be
\* absent.
DetectTexts ==
    {Repeat(<<"#", "\n">>, h) \o Repeat(<<"\n">>, e) \o Staircase(st) \o t
       \o Repeat(<<"o", "b", "j", " ">>, g) \o Repeat(TripleDouble \o TripleDouble, d) :
         h \in {0, HeaderLines}, e \in {0, PadLines}, st \in {0, StairSteps},
         t \in TextsUpTo(DetectAlphabet, MaxDetectLen),
         g \in {0, NameCount}, d \in {0, DocBlocks}}

InitDetect ==
    /\ pc = "call_detect"
    /\ request = None
    /\ code1 \in DetectTexts
    /\ code2 = None
    /\ norm1 = None
    /\ similarity = None
    /\ ai_detection1 = None
    /\ ai_detection2 = None
    /\ response = None
    /\ calls = None

DetectAIGenerated ==
    /\ pc = "call_detect"
    /\ ai_detection1' = detect_ai_generated(code1)
    /\ pc' = "detect_returned"
    /\ UNCHANGED <<request, code1, code2, norm1, similarity, ai_detection2,
                   response, calls>>

NextDetect == DetectAIGenerated

SpecDetect == InitDetect /\ [][NextDetect]_vars

(***************************************************************************)
(* Properties of detect_ai_generated                                       *)
(***************************************************************************)
DetectReturned == pc = "detect_returned"

\* The number of lines of a text that hold something besides whitespace.
NonBlankLineCount(s) ==
    Cardinality({k \in 1..Len(SplitLines(s)) : Strip(SplitLines(s)[k]) # <<>>})

ZeroReport ==
    [probability |-> 0, confidence |-> "low",
     indicators  |-> [n \in IndicatorNames |-> 0]]

\* C3: a text without any non-blank line (empty, or newlines and
\* whitespace-only lines) gets probability 0, confidence low and five
\* indicators of 0.
C3_NoNonBlankLineGivesZeroReport ==
    (DetectReturned /\ NonBlankLineCount(code1) = 0) => ai_detection1 = ZeroReport

\* The band of a reported probability: high above 70, medium above 40 and
\* up to 70, low up to 40.
BandOfReported(p) ==
    IF p > 7000 THEN "high" ELSE IF p > 4000 THEN "medium" ELSE "low"

\* C4: the confidence of a report is the band of the probability the same
\* report shows.
C4_ConfidenceIsBandOfReported ==
    DetectReturned =>
        ai_detection1.confidence = BandOfReported(ai_detection1.probability)

\* The sum of the five reported indicators, in hundredths.
ReportedIndicatorSum(r) ==
    r.indicators.comment_density + r.indicators.perfect_indentation
    + r.indicators.generic_names + r.indicators.documentation_style
    + r.indicators.complexity

\* C9: a report has exactly the five indicator keys, each value within
\* [0, 100], and its probability is their mean rounded to two decimals,
\* itself within [0, 100].
C9_FiveBoundedIndicatorsAndMean ==
    DetectReturned =>
        /\ DOMAIN ai_detection1.indicators = IndicatorNames
        /\ Cardinality(IndicatorNames) = 5
        /\ \A n \in IndicatorNames : ai_detection1.indicators[n] \in 0..10000
        /\ ai_detection1.probability =
               RoundHalfEven(ReportedIndicatorSum(ai_detection1), 5)
        /\ ai_detection1.probability \in 0..10000

\* A report for a text with more than ten generic names, some comment lines
\* and a mean that is not a whole number of hundredths.
C9_Witness ==
    /\ DetectReturned
    /\ GenericCount(code1) > 10
    /\ ai_detection1.indicators.generic_names = 10000
    /\ ai_detection1.indicators.comment_density \notin {0, 10000}
    /\ ReportedIndicatorSum(ai_detection1) % 5 # 0

(***************************************************************************)
(* The /analyze handler                                                    *)
(***************************************************************************)
\* The keys of ALLOWED_EXTENSIONS.
AllowedExtensions ==
    {<<"p","y">>, <<"g","o">>, <<"j","a","v","a">>, <<"c">>, <<"c","p","p">>,
     <<"c","s">>, <<"j","s">>, <<"j","s","x">>, <<"t","s">>, <<"t","s","x">>}

\* ALLOWED_EXTENSIONS[ext]
Language(ext) ==
    CASE ext = <<"p","y">>         -> "Python"
      [] ext = <<"g","o">>         -> "Go"
      [] ext = <<"j","a","v","a">> -> "Java"
      [] ext = <<"c">>             -> "C"
      [] ext = <<"c","p","p">>     -> "C++"
      [] ext = <<"c","s">>         -> "C#"
      [] ext = <<"j","s">>         -> "JavaScript"
      [] ext = <<"j","s","x">>     -> "JavaScript"
      [] ext = <<"t","s">>         -> "TypeScript"
      [] ext = <<"t","s","x">>     -> "TypeScript"

HasDot(filename) == \E i \in 1..Len(filename) : filename[i] = "."

\* filename.rsplit('.', 1)[1]: what follows the last dot.
AfterLastDot(filename) ==
    Slice(filename, SetMax({i \in 1..Len(filename) : filename[i] = "."}) + 1,
          Len(filename))

\* allowed_file without the .lower().
allowed_file_case_sensitive(filename) ==
    HasDot(filename) /\ AfterLastDot(filename) \in AllowedExtensions

allowed_file(filename) ==
    HasDot(filename) /\ Lower(AfterLastDot(filename)) \in AllowedExtensions

get_file_extension(filename) ==
    IF HasDot(filename) THEN Lower(AfterLastDot(filename)) ELSE <<>>

\* The file names and file contents a request may carry.
Filenames ==
    {<<>>, <<"a",".","p","y">>, <<"b",".","P","Y">>, <<"c",".","g","o">>,
     <<"d",".","t","x","t">>, <<"p","y">>, <<"e",".","p","y",".","g","o">>}

MaxUploadLen == 1
UploadAlphabet == {"a", "\n"}
Uploads == TextsUpTo(UploadAlphabet, MaxUploadLen)

FileParts == [filename : Filenames, content : Uploads]

\* A request is the file parts it carries, by field name, and whether its
\* body is larger than MAX_CONTENT_LENGTH.
Requests ==
    {[files |-> f, too_large |-> big] :
        f \in UNION {[names -> FileParts] : names \in SUBSET {"file1", "file2"}},
        big \in BOOLEAN}

Init ==
    /\ pc = "check_files"
    /\ request \in Requests
    /\ code1 = None
    /\ code2 = None
    /\ norm1 = None
    /\ similarity = None
    /\ ai_detection1 = None
    /\ ai_detection2 = None
    /\ response = None
    /\ calls = [calculate_similarity |-> 0, detect_ai_generated |-> 0]

\* return jsonify({'error': message}), status
Fail(message, status) ==
    /\ response' = [status |-> status, body |-> [error |-> message]]
    /\ pc' = "done"
    /\ UNCHANGED <<request, code1, code2, norm1, similarity, ai_detection1,
                   ai_detection2, calls>>

Proceed(next) ==
    /\ pc' = next
    /\ UNCHANGED <<request, code1, code2, norm1, similarity, ai_detection1,
                   ai_detection2, response, calls>>

\* Reading request.files of a body larger than MAX_CONTENT_LENGTH raises;
\* the handler's except clause answers 500 with the exception's text.
AnalyzeExcept ==
    /\ pc = "check_files"
    /\ request.too_large
    /\ Fail("Request Entity Too Large", 500)

AnalyzeCheckFiles ==
    /\ pc = "check_files"
    /\ ~request.too_large
    /\ IF "file1" \notin DOMAIN request.files \/ "file2" \notin DOMAIN request.files
       THEN Fail("Both files are required", 400)
       ELSE Proceed("check_selected")

AnalyzeCheckSelected ==
    /\ pc = "check_selected"
    /\ IF request.files["file1"].filename = <<>> \/ request.files["file2"].filename = <<>>
       THEN Fail("Please select both files", 400)
       ELSE Proceed("check_allowed")

AnalyzeCheckAllowed ==
    /\ pc = "check_allowed"
    /\ IF \/ ~allowed_file(request.files["file1"].filename)
          \/ ~allowed_file(request.files["file2"].filename)
       THEN Fail("Invalid file type", 400)
       ELSE Proceed("check_match")

AnalyzeCheckMatch ==
    /\ pc = "check_match"
    /\ IF get_file_extension(request.files["file1"].filename)
            # get_file_extension(request.files["file2"].filename)
       THEN Fail("File extensions must match", 400)
       ELSE Proceed("read")

AnalyzeRead ==
    /\ pc = "read"
    /\ code1' = request.files["file1"].content
    /\ code2' = request.files["file2"].content
    /\ pc' = "similarity"
    /\ UNCHANGED <<request, norm1, similarity, ai_detection1, ai_detection2,
                   response, calls>>

AnalyzeSimilarity ==
    /\ pc = "similarity"
    /\ similarity' = calculate_similarity(code1, code2)
    /\ calls' = [calls EXCEPT !.calculate_similarity = @ + 1]
    /\ pc' = "detect1"
    /\ UNCHANGED <<request, code1, code2, norm1, ai_detection1, ai_detection2,
                   response>>

AnalyzeDetect1 ==
    /\ pc = "detect1"
    /\ ai_detection1' = detect_ai_generated(code1)
    /\ calls' = [calls EXCEPT !.detect_ai_generated = @ + 1]
    /\ pc' = "detect2"
    /\ UNCHANGED <<request, code1, code2, norm1, similarity, ai_detection2,
                   response>>

AnalyzeDetect2 ==
    /\ pc = "detect2"
    /\ ai_detection2' = detect_ai_generated(code2)
    /\ calls' = [calls EXCEPT !.detect_ai_generated = @ + 1]
    /\ pc' = "respond"
    /\ UNCHANGED <<request, code1, code2, norm1, similarity, ai_detection1,
                   response>>

AnalyzeRespond ==
    /\ pc = "respond"
    /\ response' =
         [status |-> 200,
          body   |-> [success      |-> TRUE,
                      language     |-> Language(get_file_extension(
                                           request.files["file1"].filename)),
                      extension    |-> get_file_extension(request.files["file1"].filename),
                      similarity   |-> similarity,
                      ai_detection |-> [file1 |-> ai_detection1,
                                        file2 |-> ai_detection2]]]
    /\ pc' = "done"
    /\ UNCHANGED <<request, code1, code2, norm1, similarity, ai_detection1,
                   ai_detection2, calls>>

Next ==
    \/ AnalyzeExcept
    \/ AnalyzeCheckFiles
    \/ AnalyzeCheckSelected
    \/ AnalyzeCheckAllowed
    \/ AnalyzeCheckMatch
    \/ AnalyzeRead
    \/ AnalyzeSimilarity
    \/ AnalyzeDetect1
    \/ AnalyzeDetect2
    \/ AnalyzeRespond

Spec == Init /\ [][Next]_vars

(***************************************************************************)
(* Properties of analyze                                                   *)
(***************************************************************************)
\* Whether the request fails validation: a file part is missing, a file
\* name is empty, an extension is not on the whitelist, or the two
\* lower-cased extensions differ.
FailsValidation(r) ==
    \/ "file1" \notin DOMAIN r.files
    \/ "file2" \notin DOMAIN r.files
    \/ \E n \in DOMAIN r.files :
          \/ r.files[n].filename = <<>>
          \/ ~HasDot(r.files[n].filename)
          \/ Lower(AfterLastDot(r.files[n].filename)) \notin AllowedExtensions
    \/ Lower(AfterLastDot(r.files["file1"].filename))
         # Lower(AfterLastDot(r.files["file2"].filename))

NoCoreCall == calls.calculate_similarity = 0 /\ calls.detect_ai_generated = 0

\* C7: a request that fails validation is answered 400 with an error
\* message only, and the core functions are never invoked for it; any
\* other request is answered 200 with language, extension, similarity
\* report and one AI report per file, after both core functions ran;
\* 500 is answered only when an exception was raised.
C7_AnalyzeStatus ==
    /\ FailsValidation(request) => NoCoreCall
    /\ pc = "done" =>
         /\ response.status = 500 <=> request.too_large
         /\ response.status = 500 => DOMAIN response.body = {"error"} /\ NoCoreCall
         /\ (~request.too_large /\ FailsValidation(request)) =>
              /\ response.status = 400
              /\ DOMAIN response.body = {"error"}
         /\ (~request.too_large /\ ~FailsValidation(request)) =>
              /\ response.status = 200
              /\ DOMAIN response.body =
                   {"success", "language", "extension", "similarity", "ai_detection"}
              /\ calls = [calculate_similarity |-> 1, detect_ai_generated |-> 2]
              /\ response.body.extension
                   = Lower(AfterLastDot(request.files["file1"].filename))
              /\ response.body.language = Language(response.body.extension)
              /\ response.body.similarity
                   = calculate_similarity(request.files["file1"].content,
                                          request.files["file2"].content)
              /\ DOMAIN response.body.ai_detection = {"file1", "file2"}
              /\ \A n \in {"file1", "file2"} :
                   response.body.ai_detection[n]
                     = detect_ai_generated(request.files[n].content)

\* A request with an upper-case extension that was accepted and answered.
C7_Witness ==
    /\ pc = "done"
    /\ response.status = 200
    /\ request.files["file1"].filename = <<"b",".","P","Y">>
    /\ request.files["file2"].filename = <<"a",".","p","y">>
    /\ request.files["file1"].content # request.files["file2"].content

====
